---- MODULE Spec2Model ----
(***************************************************************************)
(* State-machine model of luckydraw_web.py: the module-level lists PRIZES  *)
(* and DEFAULT_WEIGHTS, weighted_sample_without_replacement, draw_prizes   *)
(* and main.                                                               *)
(*                                                                         *)
(* Python lists are objects reached through references, so the model keeps *)
(* a heap `lists` (location -> contents) and the local names population,   *)
(* weights, pop and w hold locations.  Weights are whole numbers of an     *)
(* arbitrary unit; rng.random() yields u / RandDenom with u in             *)
(* 0 .. RandDenom-1, and r = random() * total is kept as the exact         *)
(* numerator u * total (so "r <= cum" is "u*total <= cum*RandDenom").      *)
(* sum(w) and the running cum add the same numbers in the same order      *)
(* (left to right from zero), so both are the same sum; it is exact here.  *)
(* random.choices and random.sample are modelled as CPython 3.9-3.11       *)
(* implements them.                                                        *)
(***************************************************************************)
EXTENDS Integers, Sequences, FiniteSets, TLC

\* ------------------------------------------------------------------ bounds
\* rng.random() is modelled on the grid {0, 1/RandDenom, ..., (RandDenom-1)/RandDenom}
RandDenom == 8
\* longest draw with replacement explored by Spec (the loop itself is unbounded)
MaxDraws == 3
\* longest draw made with a non-null seed (its stream is recorded for the repeat call)
MaxSeededQuantity == 3
\* how far beyond len(PRIZES) a requested quantity goes
MaxExtra == 1
\* how far below 1 a requested quantity goes
MaxBelow == 2
\* longest line typed at the interactive prompt
MaxInputLen == 3

\* ------------------------------------------------------- module-level data
None == "None"

PrizeList ==
  <<"photo frame", "slogan", "sticker set", "notebook", "pin button", "postcard">>

DefaultWeightList == <<1, 3, 6, 10, 20, 30>>

NumPrizes == Len(PrizeList)

\* heap locations of the list objects
Locs == {"PRIZES", "DEFAULT_WEIGHTS", "caller", "pop", "w", "pool"}

\* weight lists a caller passes (besides omitting the argument)
CallerLists ==
  { <<0, 0, 0, 0, 0, 0>>,
    <<0, 0, 0, 0, 0, 1>>,
    <<0, 2, 0, 1, 1, 0>>,
    <<1, 2, 3, 4, 5>> }

Quantities == (1 - MaxBelow) .. (NumPrizes + MaxExtra)

Seeds == {None, "42"}

\* ----------------------------------------------------------------- helpers
RECURSIVE SumSeq(_)
SumSeq(s) == IF s = <<>> THEN 0 ELSE Head(s) + SumSeq(Tail(s))

\* list.pop(i) leaves the list without its element at (1-based) position i
RemoveAtBroken(s, i) == s
RemoveAt(s, i) == SubSeq(s, 1, i - 1) \o SubSeq(s, i + 1, Len(s))

\* w.pop(i) of lines 79 and 87
WeightsAfterPopKept(ws, i) == ws
WeightsAfterPop(ws, i) == RemoveAt(ws, i)

\* population[:] and weights[:] bind the name to a fresh list object
SliceTargetAlias(src, fresh) == src
SliceTarget(src, fresh) == fresh

\* the scan of lines 82-88: the first position whose running sum reaches r,
\* 0 when the loop ends without a break.  rnum is r * RandDenom.
RECURSIVE ScanStrict(_, _, _, _)
ScanStrict(ws, rnum, i, cum) ==
  IF i > Len(ws) THEN 0
  ELSE IF rnum < (cum + ws[i]) * RandDenom THEN i
       ELSE ScanStrict(ws, rnum, i + 1, cum + ws[i])

RECURSIVE Scan(_, _, _, _)
Scan(ws, rnum, i, cum) ==
  IF i > Len(ws) THEN 0
  ELSE IF rnum <= (cum + ws[i]) * RandDenom THEN i
       ELSE Scan(ws, rnum, i + 1, cum + ws[i])

\* rng.randrange(n) / the index rng.choice and rng.sample take, from the raw value u
Randrange(u, n) == (u * n) \div RandDenom

\* bisect(cum_weights, random() * total, 0, hi) of random.choices: the first
\* position in 1..hi whose cumulative weight exceeds r, else hi + 1 (1-based)
RECURSIVE Bisect(_, _, _, _)
Bisect(ws, rnum, i, cum) ==
  IF i >= Len(ws) THEN Len(ws)
  ELSE IF rnum < (cum + ws[i]) * RandDenom THEN i
       ELSE Bisect(ws, rnum, i + 1, cum + ws[i])

\* ------------------------------------------------------------------- state
VARIABLES
  lists,      \* heap: location -> contents of the list object there
  pc,         \* control point
  entry,      \* which function the caller invoked: "draw", "sample", "main"
  quantity,   \* draw_prizes: quantity
  unique,     \* draw_prizes: unique
  seed,       \* draw_prizes: seed
  tiered,     \* draw_prizes: tiered
  weights,    \* location bound to `weights` (None when omitted)
  population, \* location bound to `population`
  k,          \* number of items asked of the sampling loop
  pop,        \* location bound to `pop`
  w,          \* location bound to `w`
  iter,       \* iterations of the current loop completed
  result,     \* the list being built / returned
  total,      \* <<sum(w)>> of the last iteration, <<>> before
  r,          \* <<r * RandDenom>> of the last weighted pick, <<>> otherwise
  rngMade,    \* a random.Random was constructed for the call
  rngCalls,   \* values the generator has yielded since it was constructed
  stream,     \* values Random(seed) yields for the non-null seed in use
  callNo,     \* 1, or 2 for the repeat of the same call
  first,      \* outcome of call 1 while call 2 runs
  exc,        \* message of the ValueError raised, None otherwise
  argQuantity,\* main: args.quantity, <<>> when omitted
  raw,        \* main: the line read at the prompt
  stdout,     \* main: lines printed
  stderr,     \* main: lines printed to the error stream
  exitCode    \* main: <<code>> once returned

vars == <<lists, pc, entry, quantity, unique, seed, tiered, weights, population,
          k, pop, w, iter, result, total, r, rngMade, rngCalls, stream, callNo,
          first, exc, argQuantity, raw, stdout, stderr, exitCode>>

callVars == <<quantity, unique, seed, tiered, weights>>
mainVars == <<argQuantity, raw, stdout, stderr, exitCode>>

NoLocals ==
  /\ population = None /\ pop = None /\ w = None
  /\ k = 0 /\ iter = 0 /\ result = <<>> /\ total = <<>> /\ r = <<>>
  /\ rngMade = FALSE /\ rngCalls = 0 /\ exc = None

\* the heap before any call: the two module-level lists and the caller's own list
FreshHeap(callerList) ==
  [l \in Locs |->
     CASE l = "PRIZES" -> PrizeList
       [] l = "DEFAULT_WEIGHTS" -> DefaultWeightList
       [] l = "caller" -> callerList
       [] OTHER -> <<>>]

Init ==
  /\ lists = FreshHeap(<<>>)
  /\ pc = "idle"
  /\ entry = None
  /\ quantity = 0 /\ unique = FALSE /\ seed = None /\ tiered = TRUE
  /\ weights = None
  /\ NoLocals
  /\ stream = <<>> /\ callNo = 1 /\ first = <<>>
  /\ argQuantity = <<>> /\ raw = <<>> /\ stdout = <<>> /\ stderr = <<>>
  /\ exitCode = <<>>

\* -------------------------------------------------------- the random source
\* random.Random(seed) starts a generator at the beginning of the seed's stream
RngStartShared(pos) == pos
RngStart(pos) == 0

\* The generator yields the raw value u.  With seed None the values are
\* unconstrained; with a non-null seed the n-th value is the n-th value of
\* that seed's stream, fixed the first time it is asked for.
Yield(u) ==
  /\ u \in 0 .. (RandDenom - 1)
  /\ rngCalls' = rngCalls + 1
  /\ IF seed = None THEN stream' = stream
     ELSE IF rngCalls < Len(stream)
          THEN u = stream[rngCalls + 1] /\ stream' = stream
          ELSE stream' = Append(stream, u)

\* --------------------------------------- weighted_sample_without_replacement
Raise(msg) == pc' = "raised" /\ exc' = msg

ClearSample ==
  /\ population' = None /\ pop' = None /\ w' = None
  /\ iter' = 0 /\ result' = <<>> /\ r' = <<>>

\* lines 66-72: the checks on k, the two copies, the empty result
EnterSample(poploc, wloc, kk) ==
  /\ population' = poploc /\ k' = kk
  /\ iter' = 0 /\ result' = <<>> /\ total' = <<>> /\ r' = <<>>
  /\ IF kk < 0
       THEN /\ Raise("k must be non-negative")
            /\ pop' = None /\ w' = None /\ lists' = lists
     ELSE IF kk > Len(lists[poploc])
       THEN /\ Raise("k must be <= population size for sampling without replacement")
            /\ pop' = None /\ w' = None /\ lists' = lists
     ELSE /\ pop' = SliceTarget(poploc, "pop")
          /\ w' = SliceTarget(wloc, "w")
          /\ lists' = [lists EXCEPT !["pop"] = lists[poploc], !["w"] = lists[wloc]]
          /\ pc' = "sampling" /\ exc' = None

\* lines 77-79 and 86-87: result.append(pop.pop(i)); w.pop(i)   (i is 1-based)
TakeAt(i) ==
  /\ result' = Append(result, lists[pop][i])
  /\ lists' = [l \in Locs |->
                 IF l = pop THEN RemoveAt(lists[l], i)
                 ELSE IF l = w THEN WeightsAfterPop(lists[l], i)
                 ELSE lists[l]]

\* line 75: no remaining weight is positive, pick uniformly
FallbackTakenStrict(t) == t < 0
FallbackTaken(t) == t <= 0

\* lines 73-88: one iteration of `for _ in range(k)`
SampleStep ==
  /\ pc = "sampling" /\ iter < k
  /\ iter' = iter + 1
  /\ total' = <<SumSeq(lists[w])>>
  /\ \E u \in 0 .. (RandDenom - 1) :
       /\ Yield(u)
       /\ IF FallbackTaken(SumSeq(lists[w]))
            THEN /\ r' = <<>>
                 /\ TakeAt(Randrange(u, Len(lists[pop])) + 1)
            ELSE LET rnum == u * SumSeq(lists[w])
                     i == Scan(lists[w], rnum, 1, 0)
                 IN /\ r' = <<rnum>>
                    /\ IF i = 0 THEN result' = result /\ lists' = lists
                       ELSE TakeAt(i)
  /\ UNCHANGED <<pc, entry, callVars, population, k, pop, w, rngMade, callNo,
                 first, exc, mainVars>>

\* ------------------------------------------------------------- draw_prizes
\* lines 104-127: validation and the choice of algorithm
DrawPrizes(q, u, s, t, wref) ==
  /\ quantity' = q /\ unique' = u /\ seed' = s /\ tiered' = t
  /\ IF q < 1
       THEN /\ Raise("quantity must be at least 1")
            /\ weights' = wref /\ rngMade' = FALSE /\ rngCalls' = rngCalls
            /\ ClearSample /\ k' = 0 /\ total' = <<>> /\ lists' = lists
     ELSE
       LET wloc == IF wref = None THEN "DEFAULT_WEIGHTS" ELSE wref IN
       /\ rngMade' = TRUE /\ rngCalls' = RngStart(rngCalls)
       /\ weights' = wloc
       /\ IF Len(lists[wloc]) # Len(lists["PRIZES"])
            THEN /\ Raise("weights length must match number of prizes")
                 /\ ClearSample /\ k' = 0 /\ total' = <<>> /\ lists' = lists
          ELSE IF u /\ q > Len(lists["PRIZES"])
            THEN /\ Raise("quantity must be <= 6 when drawing unique prizes")
                 /\ ClearSample /\ k' = 0 /\ total' = <<>> /\ lists' = lists
          ELSE IF u /\ t
            THEN EnterSample("PRIZES", wloc, q)
          ELSE IF u
            THEN \* rng.sample(PRIZES, k=quantity): pool = list(population)
                 /\ ClearSample /\ k' = q /\ total' = <<>>
                 /\ lists' = [lists EXCEPT !["pool"] = lists["PRIZES"]]
                 /\ pc' = "sample" /\ exc' = None
          ELSE IF t
            THEN \* rng.choices(PRIZES, weights=weights, k=quantity)
                 /\ ClearSample /\ k' = q /\ lists' = lists
                 /\ total' = <<SumSeq(lists[wloc])>>
                 /\ IF SumSeq(lists[wloc]) <= 0
                      THEN Raise("Total of weights must be greater than zero")
                      ELSE pc' = "choices" /\ exc' = None
          ELSE /\ ClearSample /\ k' = q /\ total' = <<>> /\ lists' = lists
               /\ pc' = "choosing" /\ exc' = None

\* rng.sample: result[i] = pool[j]; pool[j] = pool[n-i-1], j = randbelow(n-i)
UniformSampleStep ==
  /\ pc = "sample" /\ iter < k
  /\ iter' = iter + 1
  /\ \E u \in 0 .. (RandDenom - 1) :
       /\ Yield(u)
       /\ LET n == Len(lists["pool"])
              j == Randrange(u, n - iter) + 1
          IN /\ result' = Append(result, lists["pool"][j])
             /\ lists' = [lists EXCEPT !["pool"][j] = lists["pool"][n - iter]]
  /\ UNCHANGED <<pc, entry, callVars, population, k, pop, w, total, r, rngMade,
                 callNo, first, exc, mainVars>>

\* rng.choices: one element, population[bisect(cum_weights, random() * total, 0, hi)]
ChoicesStep ==
  /\ pc = "choices" /\ iter < k
  /\ iter' = iter + 1
  /\ \E u \in 0 .. (RandDenom - 1) :
       /\ Yield(u)
       /\ result' = Append(result,
             lists["PRIZES"][Bisect(lists[weights], u * total[1], 1, 0)])
  /\ UNCHANGED <<lists, pc, entry, callVars, population, k, pop, w, total, r,
                 rngMade, callNo, first, exc, mainVars>>

\* line 127: one element of [rng.choice(PRIZES) for _ in range(quantity)]
ChoiceStep ==
  /\ pc = "choosing" /\ iter < k
  /\ iter' = iter + 1
  /\ \E u \in 0 .. (RandDenom - 1) :
       /\ Yield(u)
       /\ result' = Append(result,
             lists["PRIZES"][Randrange(u, Len(lists["PRIZES"])) + 1])
  /\ UNCHANGED <<lists, pc, entry, callVars, population, k, pop, w, total, r,
                 rngMade, callNo, first, exc, mainVars>>

\* `for _ in range(n)` has run its n iterations
RangeExhaustedEarly(done, n) == done >= n - 1
RangeExhausted(done, n) == done = n

\* the loop is exhausted: `return result` (line 89) and the returns of 118-127
Return ==
  /\ pc \in {"sampling", "sample", "choices", "choosing"}
  /\ RangeExhausted(iter, k)
  /\ pc' = "returned"
  /\ UNCHANGED <<lists, entry, callVars, population, k, pop, w, iter, result,
                 total, r, rngMade, rngCalls, stream, callNo, first, exc, mainVars>>

\* ------------------------------------------------------------ the callers
\* the model follows a draw with replacement for at most MaxDraws items and a
\* seeded draw for at most MaxSeededQuantity items
WithinBounds(q, u, s) ==
  /\ (u \/ q <= MaxDraws)
  /\ (s = None \/ q <= MaxSeededQuantity)

\* a caller builds the weight list it is going to pass
PrepareWeights ==
  /\ pc = "idle" /\ lists["caller"] = <<>>
  /\ \E cl \in CallerLists : lists' = [lists EXCEPT !["caller"] = cl]
  /\ UNCHANGED <<pc, entry, callVars, population, k, pop, w, iter, result, total,
                 r, rngMade, rngCalls, stream, callNo, first, exc, mainVars>>

\* the weights argument of the call: the list the caller built, if any
PassedWeights == IF lists["caller"] = <<>> THEN None ELSE "caller"

\* a caller invokes draw_prizes(quantity, unique, seed, tiered, weights)
CallDraw ==
  /\ pc = "idle"
  /\ \E q \in Quantities, u \in BOOLEAN, s \in Seeds, t \in BOOLEAN :
       /\ WithinBounds(q, u, s)
       /\ DrawPrizes(q, u, s, t, PassedWeights)
  /\ entry' = "draw"
  /\ UNCHANGED <<stream, callNo, first, mainVars>>

\* a caller invokes weighted_sample_without_replacement(PRIZES, weights, k, rng)
\* with a generator of its own
CallSample ==
  /\ pc = "idle"
  /\ \E kk \in Quantities :
       LET wloc == IF PassedWeights = None THEN "DEFAULT_WEIGHTS" ELSE "caller" IN
       /\ Len(lists[wloc]) = Len(lists["PRIZES"])
       /\ weights' = wloc
       /\ EnterSample("PRIZES", wloc, kk)
  /\ entry' = "sample"
  /\ rngMade' = TRUE /\ rngCalls' = 0
  /\ UNCHANGED <<quantity, unique, seed, tiered, stream, callNo, first, mainVars>>

\* the same call once more: same arguments, same seed
RepeatDraw ==
  /\ pc \in {"returned", "raised"} /\ entry = "draw"
  /\ callNo = 1 /\ seed # None
  /\ callNo' = 2
  /\ first' = <<[exc |-> exc, result |-> result]>>
  /\ DrawPrizes(quantity, unique, seed, tiered,
                IF weights = "DEFAULT_WEIGHTS" THEN None ELSE weights)
  /\ UNCHANGED <<entry, stream, mainVars>>

\* the caller drops the outcome and its weight list; the module-level lists
\* live on
Forget ==
  /\ \/ pc \in {"returned", "raised"} /\ entry \in {"draw", "sample"}
     \/ pc = "exited"
  /\ lists' = [lists EXCEPT !["caller"] = <<>>, !["pop"] = <<>>, !["w"] = <<>>,
                            !["pool"] = <<>>]
  /\ pc' = "idle" /\ entry' = None
  /\ quantity' = 0 /\ unique' = FALSE /\ seed' = None /\ tiered' = TRUE
  /\ weights' = None
  /\ population' = None /\ pop' = None /\ w' = None
  /\ k' = 0 /\ iter' = 0 /\ result' = <<>> /\ total' = <<>> /\ r' = <<>>
  /\ rngMade' = FALSE /\ rngCalls' = 0 /\ exc' = None
  /\ stream' = <<>> /\ callNo' = 1 /\ first' = <<>>
  /\ argQuantity' = <<>> /\ raw' = <<>> /\ stdout' = <<>> /\ stderr' = <<>>
  /\ exitCode' = <<>>

\* -------------------------------------------------------------------- main
\* characters a line typed at the prompt is made of
Chars == {" ", "-", "0", "1", "7", "x"}

InputLines == UNION {[1 .. n -> Chars] : n \in 0 .. MaxInputLen}

\* str.strip()
RECURSIVE LStrip(_)
LStrip(s) == IF s # <<>> /\ Head(s) = " " THEN LStrip(Tail(s)) ELSE s

RECURSIVE RStrip(_)
RStrip(s) ==
  IF s # <<>> /\ s[Len(s)] = " " THEN RStrip(SubSeq(s, 1, Len(s) - 1)) ELSE s

Strip(s) == RStrip(LStrip(s))

IsDigit(c) == c \in {"0", "1", "7"}

DigitVal(c) == CASE c = "0" -> 0 [] c = "1" -> 1 [] c = "7" -> 7

\* int(raw) succeeds: an optional sign, then one or more digits
IsIntLiteralUnsigned(t) ==
  /\ t # <<>>
  /\ \A i \in 1 .. Len(t) : IsDigit(t[i])
IsIntLiteral(t) ==
  LET body == IF t # <<>> /\ Head(t) = "-" THEN Tail(t) ELSE t
  IN /\ body # <<>>
     /\ \A i \in 1 .. Len(body) : IsDigit(body[i])

RECURSIVE DigitsValue(_, _)
DigitsValue(ds, acc) ==
  IF ds = <<>> THEN acc ELSE DigitsValue(Tail(ds), 10 * acc + DigitVal(Head(ds)))

\* the value int(raw) returns
IntValue(t) ==
  IF Head(t) = "-" THEN 0 - DigitsValue(Tail(t), 0) ELSE DigitsValue(t, 0)

\* lines 140-141: parse_args succeeded; quantity = args.quantity
MainArgs ==
  /\ pc = "idle" /\ lists["caller"] = <<>>
  /\ \E qa \in {<<>>} \cup {<<q>> : q \in Quantities}, u \in BOOLEAN,
        s \in Seeds, nt \in BOOLEAN :
       /\ qa # <<>> => WithinBounds(qa[1], u, s)
       /\ argQuantity' = qa
       /\ quantity' = IF qa = <<>> THEN 0 ELSE qa[1]
       /\ unique' = u /\ seed' = s /\ tiered' = ~nt
       /\ pc' = IF qa = <<>> THEN "prompt" ELSE "draw_call"
  /\ entry' = "main"
  /\ UNCHANGED <<lists, weights, population, k, pop, w, iter, result, total, r,
                 rngMade, rngCalls, stream, callNo, first, exc, raw, stdout,
                 stderr, exitCode>>

\* lines 144-150: the prompt, int(raw), the ValueError handler
MainPrompt ==
  /\ pc = "prompt"
  /\ \E line \in InputLines :
       /\ raw' = Strip(line)
       /\ IF IsIntLiteral(Strip(line))
            THEN /\ IntValue(Strip(line)) \in Quantities
                 /\ WithinBounds(IntValue(Strip(line)), unique, seed)
                 /\ quantity' = IntValue(Strip(line))
                 /\ pc' = "draw_call"
                 /\ UNCHANGED <<stderr, exitCode>>
            ELSE /\ stderr' = Append(stderr,
                       "Invalid input. Please enter a positive integer for quantity.")
                 /\ exitCode' = <<1>>
                 /\ pc' = "exited"
                 /\ UNCHANGED quantity
  /\ UNCHANGED <<lists, entry, unique, seed, tiered, weights, population, k, pop,
                 w, iter, result, total, r, rngMade, rngCalls, stream, callNo,
                 first, exc, argQuantity, stdout>>

\* line 153: the call of draw_prizes, weights omitted
MainDraw ==
  /\ pc = "draw_call"
  /\ DrawPrizes(quantity, unique, seed, tiered, None)
  /\ UNCHANGED <<entry, stream, callNo, first, mainVars>>

\* lines 154-156: the ValueError handler
MainError ==
  /\ entry = "main" /\ pc = "raised"
  /\ stderr' = Append(stderr, "Error: " \o exc)
  /\ exitCode' = <<2>>
  /\ pc' = "exited"
  /\ UNCHANGED <<lists, entry, callVars, population, k, pop, w, iter, result,
                 total, r, rngMade, rngCalls, stream, callNo, first, exc,
                 argQuantity, raw, stdout>>

\* line 158: the heading
MainHeader ==
  /\ entry = "main" /\ pc = "returned"
  /\ stdout' = Append(stdout, [kind |-> "heading", no |-> quantity, text |-> ""])
  /\ pc' = "printing"
  /\ UNCHANGED <<lists, entry, callVars, population, k, pop, w, iter, result,
                 total, r, rngMade, rngCalls, stream, callNo, first, exc,
                 argQuantity, raw, stderr, exitCode>>

ItemsPrinted == Len(SelectSeq(stdout, LAMBDA ln : ln.kind = "item"))

\* lines 159-160: one numbered line
MainPrintItem ==
  /\ pc = "printing" /\ ItemsPrinted < Len(result)
  /\ stdout' = Append(stdout, [kind |-> "item", no |-> ItemsPrinted + 1,
                                text |-> result[ItemsPrinted + 1]])
  /\ UNCHANGED <<lists, pc, entry, callVars, population, k, pop, w, iter, result,
                 total, r, rngMade, rngCalls, stream, callNo, first, exc,
                 argQuantity, raw, stderr, exitCode>>

\* Counter(prizes)[prize]
Count(prize, prizes) == Cardinality({i \in 1 .. Len(prizes) : prizes[i] = prize})

\* lines 164-166: one line per prize of PRIZES drawn at least once
RECURSIVE SummaryLines(_, _)
SummaryLines(prizeList, prizes) ==
  IF prizeList = <<>> THEN <<>>
  ELSE (IF Count(Head(prizeList), prizes) # 0
          THEN <<[kind |-> "count", no |-> Count(Head(prizeList), prizes),
                  text |-> Head(prizeList)]>>
          ELSE <<>>)
       \o SummaryLines(Tail(prizeList), prizes)

\* lines 162-168: the summary and `return 0`
MainSummary ==
  /\ pc = "printing" /\ ItemsPrinted = Len(result)
  /\ stdout' = stdout \o <<[kind |-> "summary", no |-> 0, text |-> ""]>>
                      \o SummaryLines(lists["PRIZES"], result)
  /\ exitCode' = <<0>>
  /\ pc' = "exited"
  /\ UNCHANGED <<lists, entry, callVars, population, k, pop, w, iter, result,
                 total, r, rngMade, rngCalls, stream, callNo, first, exc,
                 argQuantity, raw, stderr>>

\* ---------------------------------------------------------- specification
Next ==
  \/ PrepareWeights
  \/ CallDraw
  \/ CallSample
  \/ RepeatDraw
  \/ SampleStep
  \/ UniformSampleStep
  \/ ChoicesStep
  \/ ChoiceStep
  \/ Return
  \/ Forget
  \/ MainArgs
  \/ MainPrompt
  \/ MainDraw
  \/ MainError
  \/ MainHeader
  \/ MainPrintItem
  \/ MainSummary

Spec == Init /\ [][Next]_vars

\* Draws with replacement of up to NumPrizes + MaxExtra items; the ones longer
\* than MaxDraws are followed with the default weights.
CallDrawLong ==
  /\ pc = "idle"
  /\ \E q \in Quantities, t \in BOOLEAN :
       /\ q <= MaxDraws \/ PassedWeights = None
       /\ DrawPrizes(q, FALSE, None, t, PassedWeights)
  /\ entry' = "draw"
  /\ UNCHANGED <<stream, callNo, first, mainVars>>

NextReplacement ==
  \/ PrepareWeights
  \/ CallDrawLong
  \/ ChoicesStep
  \/ ChoiceStep
  \/ Return
  \/ Forget

SpecReplacement == Init /\ [][NextReplacement]_vars

\* ------------------------------------------------------------------ claims
Range(s) == {s[i] : i \in 1 .. Len(s)}

Distinct(s) == \A i, j \in 1 .. Len(s) : i # j => s[i] # s[j]

\* position of a category in the fixed category list
IndexOf(c) == CHOOSE i \in 1 .. Len(PrizeList) : PrizeList[i] = c

\* a call of draw_prizes is under way or over (directly or from main)
InDraw == entry \in {"draw", "main"} /\ pc \in {"sampling", "sample", "choices",
                                                  "choosing", "returned", "raised"}

\* length of the weights sequence the call was given (the default when omitted)
GivenWeightsLen == IF weights = None THEN Len(DefaultWeightList) ELSE Len(lists[weights])

\* C1: with unique=true, quantity in 1..6 and any six non-negative weights
\* (zeros included), draw_prizes raises nothing, and what it returns has
\* quantity entries, pairwise distinct, all from the fixed category list.
C1_UniqueDraw ==
  (InDraw /\ unique /\ quantity \in 1 .. NumPrizes /\ GivenWeightsLen = NumPrizes)
    => /\ pc # "raised"
       /\ iter <= k
       /\ pc = "returned" =>
            /\ Len(result) = quantity
            /\ Distinct(result)
            /\ Range(result) \subseteq Range(PrizeList)

C1_Witness ==
  /\ entry = "draw" /\ pc = "returned" /\ unique /\ tiered
  /\ weights = "caller" /\ lists["caller"] = <<0, 0, 0, 0, 0, 0>>
  /\ quantity = NumPrizes /\ Len(result) = NumPrizes

\* C3: draw_prizes raises ValueError exactly when quantity < 1, or the weights
\* length is not 6, or unique is set and quantity > 6.
C3_RaisesIffInvalid ==
  InDraw =>
    ((pc = "raised") <=>
       \/ quantity < 1
       \/ GivenWeightsLen # NumPrizes
       \/ (unique /\ quantity > NumPrizes))

\* weight the call gave to category c
WeightOf(c) == lists[weights][IndexOf(c)]

\* C4: in weighted drawing without replacement, a pick made while some
\* remaining category has positive weight (total > 0) takes a category of
\* positive weight; with weights [0,0,0,0,0,1] and quantity 6 the result
\* starts with postcard and holds the five others once each after it.
C4_PositiveWeightFirst ==
  /\ (pc \in {"sampling", "returned"} /\ r # <<>> /\ total[1] > 0 /\ result # <<>>)
       => WeightOf(result[Len(result)]) > 0
  /\ (InDraw /\ pc = "returned" /\ unique /\ tiered /\ quantity = NumPrizes
        /\ lists[weights] = <<0, 0, 0, 0, 0, 1>>)
       => /\ result[1] = "postcard"
          /\ Range(SubSeq(result, 2, NumPrizes)) = Range(PrizeList) \ {"postcard"}

C4_Witness ==
  /\ entry = "draw" /\ pc = "returned" /\ unique /\ tiered
  /\ lists[weights] = <<0, 0, 0, 0, 0, 1>>
  /\ quantity = NumPrizes /\ result[1] = "postcard"

\* C2: with unique=false and quantity >= 1 (beyond 6 too), draw_prizes returns
\* quantity entries, each from the fixed category list, whether tiered or
\* not; it raises nothing with the weights left at their default (or with
\* any six weights of positive total).
C2_ReplacementDraw ==
  (InDraw /\ ~unique /\ quantity >= 1)
    => /\ weights = "DEFAULT_WEIGHTS" => pc # "raised"
       /\ (GivenWeightsLen = NumPrizes /\ SumSeq(lists[weights]) > 0) => pc # "raised"
       /\ iter <= k
       /\ pc = "returned" =>
            /\ Len(result) = quantity
            /\ Range(result) \subseteq Range(PrizeList)

C2_Witness ==
  /\ entry = "draw" /\ pc = "returned" /\ ~unique /\ tiered
  /\ quantity = NumPrizes + 1 /\ Len(result) = NumPrizes + 1

IsPrefix(a, b) == Len(a) <= Len(b) /\ SubSeq(b, 1, Len(a)) = a

\* C5: the same call made again with the same non-null seed ends the same
\* way: the same list in the same order, or the same error.
C5_RepeatIdentical ==
  callNo = 2 =>
    /\ IsPrefix(result, first[1].result)
    /\ pc \in {"returned", "raised"} =>
         /\ result = first[1].result
         /\ exc = first[1].exc

C5_Witness ==
  /\ callNo = 2 /\ pc = "returned" /\ unique /\ tiered /\ seed # None
  /\ Len(result) = MaxSeededQuantity /\ result = first[1].result

\* the line is an optional minus sign followed by digits only
DenotesInteger(t) ==
  \E n \in 1 .. Len(t) :
    \E ds \in [1 .. n -> {"0", "1", "7"}] : t = ds \/ t = <<"-">> \o ds

ItemLines == SelectSeq(stdout, LAMBDA ln : ln.kind = "item")

\* C6: main returns 1 exactly when quantity was omitted and the line read is
\* no integer, and then no generator exists and nothing was drawn; it returns
\* 2 exactly when the draw raised, and then stdout is empty; otherwise it
\* returns 0 with one numbered line per drawn item, in order.
C6_ExitCodes ==
  pc = "exited" =>
    /\ exitCode \in {<<0>>, <<1>>, <<2>>}
    /\ (exitCode = <<1>>) <=> (argQuantity = <<>> /\ ~DenotesInteger(raw))
    /\ exitCode = <<1>> =>
         ~rngMade /\ rngCalls = 0 /\ result = <<>> /\ stdout = <<>> /\ exc = None
    /\ (exitCode = <<2>>) <=> (exc # None)
    /\ exitCode = <<2>> => stdout = <<>>
    /\ exitCode = <<0>> =>
         /\ Len(result) = quantity
         /\ ItemLines = [i \in 1 .. Len(result) |->
                           [kind |-> "item", no |-> i, text |-> result[i]]]

C6_Witness ==
  /\ pc = "exited" /\ exitCode = <<2>> /\ argQuantity = <<>>
  /\ raw = <<"7">> /\ unique /\ stdout = <<>>

\* C7: PRIZES and DEFAULT_WEIGHTS always hold their initial contents, and no
\* step of a call changes the list the caller passed as weights.
C7_ListsUntouched ==
  /\ [](lists["PRIZES"] = PrizeList /\ lists["DEFAULT_WEIGHTS"] = DefaultWeightList)
  /\ [][pc' # "idle" => lists'["caller"] = lists["caller"]]_vars

C7_Witness ==
  /\ entry = "sample" /\ pc = "returned" /\ weights = "caller"
  /\ Len(result) = NumPrizes /\ lists["pop"] = <<>>
  /\ lists["caller"] = <<0, 2, 0, 1, 1, 0>> /\ lists["PRIZES"] = PrizeList

PrefixSum(ws, i) == SumSeq(SubSeq(ws, 1, i))

\* smallest position whose cumulative weight is >= r   (rnum = r * RandDenom)
FirstReaching(ws, rnum) ==
  CHOOSE i \in 1 .. Len(ws) :
    /\ PrefixSum(ws, i) * RandDenom >= rnum
    /\ \A j \in 1 .. (i - 1) : PrefixSum(ws, j) * RandDenom < rnum

\* C8: a weighted pick with total > 0 draws r in [0, total] and takes exactly
\* the category at the smallest position whose cumulative weight is >= r.
C8_WeightedPick ==
  [][(pc = "sampling" /\ iter' = iter + 1 /\ SumSeq(lists[w]) > 0) =>
       /\ r' # <<>>
       /\ r'[1] \in 0 .. (SumSeq(lists[w]) * RandDenom)
       /\ LET i == FirstReaching(lists[w], r'[1])
          IN /\ result' = Append(result, lists[pop][i])
             /\ lists'[pop] = RemoveAt(lists[pop], i)
             /\ lists'[w] = RemoveAt(lists[w], i)]_vars

C8_Witness ==
  /\ pc = "sampling" /\ iter = 1 /\ lists[weights] = <<0, 2, 0, 1, 1, 0>>
  /\ r = <<2 * RandDenom>> /\ result = <<"slogan">>

\* a frame of weighted_sample_without_replacement is active or has returned
InSample == pc \in {"sampling", "returned"} /\ pop # None

\* C9: the weighted draw without replacement makes exactly k iterations, each
\* taking one value from the generator (an r when total > 0, an index when
\* total <= 0) and one category, so it returns after k generator calls.
C9_OneValuePerStep ==
  InSample =>
    /\ iter <= k
    /\ rngCalls = iter
    /\ Len(result) = iter
    /\ iter > 0 => ((r # <<>>) <=> (total[1] > 0))
    /\ pc = "returned" =>
         /\ rngCalls = k
         /\ entry # "sample" => k = quantity

C9_Witness ==
  /\ InSample /\ pc = "returned" /\ k = NumPrizes /\ rngCalls = NumPrizes
  /\ lists[weights] = <<0, 0, 0, 0, 0, 1>> /\ r = <<>>

C10_Paired ==
  InSample =>
    /\ Len(lists[pop]) = Len(lists[w])
    /\ \A i \in 1 .. Len(lists[pop]) : lists[w][i] = WeightOf(lists[pop][i])
    /\ Range(result) \cap Range(lists[pop]) = {}
    /\ Distinct(result \o lists[pop])
    /\ Range(result \o lists[pop]) = Range(PrizeList)
    /\ Len(result) + Len(lists[pop]) = NumPrizes

\* C10: between picks the working lists have equal length, every remaining
\* category still carries its original weight, result and remaining
\* categories split the six categories, and result only grows at its end.
C10_WorkingLists ==
  /\ []C10_Paired
  /\ [][(pc = "sampling" /\ pc' \in {"sampling", "returned"}) =>
          /\ IsPrefix(result, result')
          /\ Len(result') <= Len(result) + 1]_vars

C10_Witness ==
  /\ InSample /\ pc = "sampling" /\ iter = 3 /\ Len(result) = 3
  /\ Len(lists[pop]) = 3 /\ lists[weights] = <<0, 2, 0, 1, 1, 0>>

====
